---------------------------- MODULE Spec2Model ----------------------------
(***************************************************************************)
(* A model of the rule tables of translator.cpp: the construction of the   *)
(* type and identifier tables from the YAML configuration, the two         *)
(* resolvers Translator::mapType and Translator::mapIdentifier, and the    *)
(* sequencing of Translator::processFile.                                  *)
(*                                                                         *)
(* Strings are sequences of one-character strings, so that front(),        *)
(* back(), pop_back() and the regular expressions act on characters.       *)
(***************************************************************************)
EXTENDS Integers, Sequences, FiniteSets, TLC

-----------------------------------------------------------------------------
(* Strings *)

front(s) == s[1]
back(s) == s[Len(s)]
pop_back(s) == SubSeq(s, 1, Len(s) - 1)

STR_type == <<"t", "y", "p", "e">>
STR_on == <<"+", "o", "n">>
STR_set == <<"+", "s", "e", "t">>

-----------------------------------------------------------------------------
(* std::regex (ECMAScript), restricted to the patterns the configurations  *)
(* of this model use: literal characters, '.', a '*' after a character or  *)
(* a '.', and the assertions '^' and '$'.                                  *)

AtomMatches(a, c) == a = "." \/ a = c

\* The number of characters from position j on that atom a matches.
RECURSIVE RunLength(_, _, _)
RunLength(a, s, j) ==
    IF j <= Len(s) /\ AtomMatches(a, s[j]) THEN 1 + RunLength(a, s, j + 1) ELSE 0

\* The end (one past the last character) of the match of re that starts at
\* position j of s, the one the backtracking matcher finds first (a star is
\* greedy), or 0 when re does not match there.
RECURSIVE MatchEnd(_, _, _)
RECURSIVE StarEnd(_, _, _, _)
StarEnd(rest, s, j, k) ==
    LET e == MatchEnd(rest, s, j + k)
    IN  IF e # 0 THEN e ELSE IF k = 0 THEN 0 ELSE StarEnd(rest, s, j, k - 1)

MatchEnd(re, s, j) ==
    IF re = <<>> THEN j
    ELSE IF re[1] = "^" THEN IF j = 1 THEN MatchEnd(Tail(re), s, j) ELSE 0
    ELSE IF re[1] = "$" THEN IF j = Len(s) + 1 THEN MatchEnd(Tail(re), s, j) ELSE 0
    ELSE IF Len(re) >= 2 /\ re[2] = "*"
         THEN StarEnd(Tail(Tail(re)), s, j, RunLength(re[1], s, j))
    ELSE IF j <= Len(s) /\ AtomMatches(re[1], s[j]) THEN MatchEnd(Tail(re), s, j + 1)
    ELSE 0

\* The leftmost position from j on where re matches, or 0.
RECURSIVE SearchFrom(_, _, _)
SearchFrom(re, s, j) ==
    IF j > Len(s) + 1 THEN 0
    ELSE IF MatchEnd(re, s, j) # 0 THEN j
    ELSE SearchFrom(re, s, j + 1)

regex_search(s, re) == SearchFrom(re, s, 1) # 0

\* std::regex_replace with the default flags: every match, left to right and
\* not overlapping, is replaced by fmt; the rest is copied.  After an empty
\* match the iterator first tries a non-empty match at the same place and
\* otherwise moves one character on.  from is where the next search starts,
\* copied is the first character not yet copied to the output.
RECURSIVE ReplaceFrom(_, _, _, _, _, _)
ReplaceFrom(s, re, fmt, from, copied, afterEmpty) ==
    IF afterEmpty /\ from > Len(s) THEN SubSeq(s, copied, Len(s))
    ELSE IF afterEmpty /\ MatchEnd(re, s, from) > from
    THEN SubSeq(s, copied, from - 1) \o fmt
         \o ReplaceFrom(s, re, fmt, MatchEnd(re, s, from), MatchEnd(re, s, from), FALSE)
    ELSE LET start == IF afterEmpty THEN from + 1 ELSE from
             b == SearchFrom(re, s, start)
             e == MatchEnd(re, s, b)
         IN  IF b = 0 THEN SubSeq(s, copied, Len(s))
             ELSE SubSeq(s, copied, b - 1) \o fmt
                  \o ReplaceFrom(s, re, fmt, e, e, e = b)

regex_replace(s, re, fmt) == ReplaceFrom(s, re, fmt, 1, 1, FALSE)

-----------------------------------------------------------------------------
(* YAML nodes *)

YNull == [kind |-> "Null", val |-> <<>>, pairs |-> <<>>, items |-> <<>>]
YScalar(s) == [kind |-> "Scalar", val |-> s, pairs |-> <<>>, items |-> <<>>]
YMap(ps) == [kind |-> "Map", val |-> <<>>, pairs |-> ps, items |-> <<>>]
YSequence(xs) == [kind |-> "Sequence", val |-> <<>>, pairs |-> <<>>, items |-> xs]
Pair(key, node) == [first |-> key, second |-> node]

HasKey(pairs, key) == \E i \in 1..Len(pairs) : pairs[i].first = key
Get(pairs, key) ==
    pairs[CHOOSE i \in 1..Len(pairs) :
            /\ pairs[i].first = key
            /\ \A j \in 1..(i - 1) : pairs[j].first # key].second

\* The outcome of a call that may throw a YamlException.
Thrown == [ok |-> FALSE, val |-> <<>>]
Returned(v) == [ok |-> TRUE, val |-> v]

-----------------------------------------------------------------------------
(* TypeUsage *)

\* An insertion that replaces the value of a key the map holds already.
insert_or_assign(map, k, v) == [x \in DOMAIN map \cup {k} |-> IF x = k THEN v ELSE map[x]]

\* Inserts (k, v) unless the map holds the key k already (emplace).
emplace(map, k, v) == IF k \in DOMAIN map THEN map ELSE map @@ (k :> v)

\* TypeUsage(name); TypeUsage{} is TypeUsage(<<>>).
TypeUsage(name) == [baseName |-> name, attributes |-> <<>>, lists |-> <<>>]

\* seq.asStrings(): the scalars of a sequence node, in order.
asStrings(items) == [i \in 1..Len(items) |-> items[i].val]

-----------------------------------------------------------------------------
(* Building the tables *)

\* A sequence-valued attribute is stored whenever the node is one: a defined
\* node converts to true.
addTypeAttributes(typeUsage, attributesMap) ==
    LET RECURSIVE Add(_, _)
        Add(tu, i) ==
            IF i > Len(attributesMap) THEN Returned(tu)
            ELSE LET attrName == attributesMap[i].first
                     node == attributesMap[i].second
                 IN  IF attrName = STR_type THEN Add(tu, i + 1)
                     ELSE IF node.kind = "Null"
                     THEN Add([tu EXCEPT !.attributes = emplace(@, attrName, <<>>)], i + 1)
                     ELSE IF node.kind = "Scalar"
                     THEN Add([tu EXCEPT !.attributes = emplace(@, attrName, node.val)], i + 1)
                     ELSE IF node.kind = "Sequence"
                     THEN Add([tu EXCEPT !.lists =
                                 emplace(@, attrName, asStrings(node.items))], i + 1)
                     ELSE Thrown  \* "Malformed attribute"
    IN  Add(typeUsage, 1)

\* parseTargetType(yamlTypeNode).  yamlTypeMap["type"].as<string>("") is the
\* scalar under "type", or "" when there is none.
parseTargetType1(yamlTypeNode) ==
    IF yamlTypeNode.kind = "Null" THEN Returned(TypeUsage(<<>>))
    ELSE IF yamlTypeNode.kind = "Scalar" THEN Returned(TypeUsage(yamlTypeNode.val))
    ELSE IF yamlTypeNode.kind # "Map" THEN Thrown  \* asMap()
    ELSE LET yamlTypeMap == yamlTypeNode.pairs
             typeName == IF HasKey(yamlTypeMap, STR_type)
                            /\ Get(yamlTypeMap, STR_type).kind = "Scalar"
                         THEN Get(yamlTypeMap, STR_type).val
                         ELSE <<>>
         IN  addTypeAttributes(TypeUsage(typeName), yamlTypeMap)

\* parseTargetType(yamlTypeNode, commonAttributesYaml)
parseTargetType(yamlTypeNode, commonAttributesYaml) ==
    LET tu == parseTargetType1(yamlTypeNode)
    IN  IF tu.ok THEN addTypeAttributes(tu.val, commonAttributesYaml) ELSE Thrown

\* parseEntries(entriesYaml, inserter, commonAttributesYaml): the calls of
\* inserter it makes, in order, each a record of the three arguments; or
\* Thrown.  The two inserters of the source only append to a table, so the
\* table is the calls mapped through the inserter.
RECURSIVE parseEntries(_, _)
parseEntries(entriesYaml, commonAttributesYaml) ==
    IF entriesYaml = <<>> THEN Returned(<<>>)
    ELSE LET typesBlockYaml == Head(entriesYaml)
             ps == typesBlockYaml.pairs
             block ==
                 IF typesBlockYaml.kind # "Map" THEN Thrown
                 ELSE IF Len(ps) = 0 THEN Thrown  \* "Empty type entry"
                 ELSE IF Len(ps) = 1
                 THEN Returned(<< [name |-> ps[1].first, node |-> ps[1].second,
                                   common |-> commonAttributesYaml] >>)
                 ELSE IF Len(ps) = 2 /\ HasKey(ps, STR_on) /\ HasKey(ps, STR_set)
                 THEN IF Get(ps, STR_on).kind = "Sequence" /\ Get(ps, STR_set).kind = "Map"
                      THEN parseEntries(Get(ps, STR_on).items, Get(ps, STR_set).pairs)
                      ELSE Thrown
                 ELSE Thrown  \* "Too many entries in the map"
             rest == parseEntries(Tail(entriesYaml), commonAttributesYaml)
         IN  IF block.ok /\ rest.ok THEN Returned(block.val \o rest.val) ELSE Thrown

\* FormatName without the rewriting of the empty format name.
FormatNameKeepingEmpty(formatName) ==
    IF Len(formatName) > 1 /\ front(formatName) = "/" /\ back(formatName) = "/"
    THEN pop_back(formatName)
    ELSE formatName

\* The inserter of parseTypeEntry: the format name as stored.
FormatName(formatName) ==
    IF formatName = <<>> THEN <<"/">>  \* Empty format means all formats
    ELSE IF Len(formatName) > 1 /\ front(formatName) = "/" /\ back(formatName) = "/"
    THEN pop_back(formatName)
    ELSE formatName

\* The table an inserter fills, from the outcomes of its calls in order: the
\* entries appended, unless one of the calls throws.
InsertAll(outcomes) ==
    IF \A i \in 1..Len(outcomes) : outcomes[i].ok
    THEN Returned([i \in 1..Len(outcomes) |-> outcomes[i].val])
    ELSE Thrown

parseTypeEntry(targetTypeYaml, commonAttributesYaml) ==
    IF targetTypeYaml.kind \in {"Scalar", "Map"}
    THEN LET tu == parseTargetType(targetTypeYaml, commonAttributesYaml)
         IN  IF tu.ok THEN Returned(<< Pair(<<>>, tu.val) >>) ELSE Thrown
    ELSE IF targetTypeYaml.kind = "Sequence"
    THEN LET calls == parseEntries(targetTypeYaml.items, commonAttributesYaml)
             Entry(c) ==
                 LET tu == parseTargetType(c.node, c.common)
                 IN  IF tu.ok THEN Returned(Pair(FormatName(c.name), tu.val)) ELSE Thrown
         IN  IF calls.ok
             THEN InsertAll([i \in 1..Len(calls.val) |-> Entry(calls.val[i])])
             ELSE Thrown
    ELSE Thrown  \* "Malformed type entry"

\* The type table the constructor builds from analyzer.types.
parseTypes(typesYaml) ==
    LET calls == parseEntries(typesYaml, <<>>)
        Entry(c) ==
            LET rules == parseTypeEntry(c.node, c.common)
            IN  IF rules.ok THEN Returned(Pair(c.name, rules.val)) ELSE Thrown
    IN  IF calls.ok
             THEN InsertAll([i \in 1..Len(calls.val) |-> Entry(calls.val[i])])
             ELSE Thrown

RECURSIVE loadStringMap(_)
loadStringMap(yaml) ==
    IF yaml = <<>> THEN <<>>
    ELSE LET pattern == Head(yaml).first
             rest == loadStringMap(Tail(yaml))
         IN  IF pattern = <<>> THEN rest  \* empty pattern, skipping
             ELSE IF Len(pattern) > 1 /\ front(pattern) # "/" /\ back(pattern) = "/"
             THEN rest  \* invalid regular expression, skipping
             ELSE << Pair(IF front(pattern) = "/" /\ back(pattern) = "/"
                          THEN pop_back(pattern) ELSE pattern,
                          Head(yaml).second.val) >> \o rest

-----------------------------------------------------------------------------
(* The resolvers *)

\* Whether a format rule of the table is the one for swaggerFormat.
FormatMatches(swFormat, swaggerFormat) ==
    \/ swFormat = swaggerFormat
    \/ /\ swFormat # <<>>
       /\ front(swFormat) = "/"
       /\ regex_search(swaggerFormat, Tail(swFormat))

\* ScanFormats going on after a match: the last rule that matches wins.
RECURSIVE ScanFormatsToTheEnd(_, _)
ScanFormatsToTheEnd(swFormatPairs, swaggerFormat) ==
    IF swFormatPairs = <<>> THEN Thrown
    ELSE LET later == ScanFormatsToTheEnd(Tail(swFormatPairs), swaggerFormat)
         IN  IF later.ok THEN later
             ELSE IF FormatMatches(Head(swFormatPairs).first, swaggerFormat)
             THEN Returned(Head(swFormatPairs).second)
             ELSE Thrown

\* The inner loop of mapType over the format rules of one entry: the
\* TypeUsage of the first rule that matches, or Thrown when the loop ends.
RECURSIVE ScanFormats(_, _)
ScanFormats(swFormatPairs, swaggerFormat) ==
    IF swFormatPairs = <<>> THEN Thrown
    ELSE IF FormatMatches(Head(swFormatPairs).first, swaggerFormat)
    THEN Returned(Head(swFormatPairs).second)  \* goto conclusion
    ELSE ScanFormats(Tail(swFormatPairs), swaggerFormat)

\* The outer loop of mapType over the table.
RECURSIVE ScanTypes(_, _, _)
ScanTypes(swTypePairs, swaggerType, swaggerFormat) ==
    IF swTypePairs = <<>> THEN TypeUsage(<<>>)
    ELSE LET found == IF Head(swTypePairs).first = swaggerType
                      THEN ScanFormats(Head(swTypePairs).second, swaggerFormat)
                      ELSE Thrown
         IN  IF found.ok THEN found.val
             ELSE ScanTypes(Tail(swTypePairs), swaggerType, swaggerFormat)

\* mapType with the fallback chain applied only when the rule names no type.
mapTypeKeepingRuleName(typesMap, swaggerType, swaggerFormat, baseName) ==
    LET tu == ScanTypes(typesMap, swaggerType, swaggerFormat)
    IN  IF tu.baseName # <<>> THEN tu
        ELSE [tu EXCEPT !.baseName =
                IF baseName = <<>>
                THEN (IF swaggerFormat = <<>> THEN swaggerType ELSE swaggerFormat)
                ELSE baseName]

mapType(typesMap, swaggerType, swaggerFormat, baseName) ==
    [ScanTypes(typesMap, swaggerType, swaggerFormat) EXCEPT !.baseName =
        IF baseName = <<>>
        THEN (IF swaggerFormat = <<>> THEN swaggerType ELSE swaggerFormat)
        ELSE baseName]

\* The loop of mapIdentifier with a regex rule deciding only when it
\* replaces something.
RECURSIVE mapIdentifierSkippingIdleRegex(_, _, _)
mapIdentifierSkippingIdleRegex(identifiers, baseName, scopedName) ==
    IF identifiers = <<>> THEN baseName
    ELSE LET pattn == Head(identifiers).first
             replaced == regex_replace(scopedName, Tail(pattn), Head(identifiers).second)
         IN  IF pattn # <<>> /\ front(pattn) = "/" /\ replaced # scopedName
             THEN replaced
             ELSE IF pattn = baseName \/ pattn = scopedName
             THEN Head(identifiers).second
             ELSE mapIdentifierSkippingIdleRegex(Tail(identifiers), baseName, scopedName)

\* The loop of mapIdentifier over the rules left.
RECURSIVE mapIdentifierFrom(_, _, _)
mapIdentifierFrom(identifiers, baseName, scopedName) ==
    IF identifiers = <<>> THEN baseName
    ELSE LET pattn == Head(identifiers).first
         IN  IF pattn # <<>> /\ front(pattn) = "/"
             THEN regex_replace(scopedName, Tail(pattn), Head(identifiers).second)
             ELSE IF pattn = baseName \/ pattn = scopedName
             THEN Head(identifiers).second
             ELSE mapIdentifierFrom(Tail(identifiers), baseName, scopedName)

mapIdentifier(identifiers, baseName, scope) ==
    mapIdentifierFrom(identifiers, baseName, scope \o <<"/">> \o baseName)

-----------------------------------------------------------------------------
(* The configurations and the queries of the model *)

\* The most format rules a type table of the model holds.
MaxRules == 2

TypeNames == {<<"i">>, <<"s">>}
FormatKeys == {<<>>, <<"x">>, <<"/", "x", "/">>, <<"/", ".", "*", "/">>}
SchemaFormats == {<<>>, <<"x">>, <<"y">>}
BaseNameHints == {<<>>, <<"h">>}

\* The target of the p-th rule of a configuration: it names the type T and
\* carries p as its attribute a, which tells the rules apart.
RuleTarget(p) ==
    YMap(<< Pair(STR_type, YScalar(<<"T">>)), Pair(<<"a">>, YScalar(<<ToString(p)>>)) >>)

\* The type entries that make k rules, the first of them the p-th: one
\* format sequence of k entries, or for k = 1 a scalar or a mapping as well.
TypeEntriesOf(k, p) ==
    { YMap(<< Pair(n, t) >>) :
        n \in TypeNames,
        t \in (IF k = 1 THEN {YScalar(<<"T">>), RuleTarget(p)} ELSE {})
              \cup { YSequence([i \in 1..k |-> YMap(<< Pair(f[i], RuleTarget(p + i - 1)) >>)]) :
                       f \in [1..k -> FormatKeys] } }

\* The analyzer.types sequences of at most r rules, the first the p-th.
RECURSIVE TypeConfigsOf(_, _)
TypeConfigsOf(r, p) ==
    {<<>>} \cup UNION { UNION { { <<e>> \o c : c \in TypeConfigsOf(r - k, p + k) } :
                                e \in TypeEntriesOf(k, p) } : k \in 1..r }

FormatConfigs == TypeConfigsOf(MaxRules, 1)

\* The most grouping directives one inside the other.
MaxDepth == 2

\* The mappings under +set.
SetMaps ==
    { << Pair(<<"a">>, YScalar(<<"s">>)) >>,
      << Pair(<<"b">>, YScalar(<<"s">>)) >>,
      << Pair(<<"a">>, YSequence(<< YScalar(<<"s">>) >>)) >>,
      << Pair(STR_type, YScalar(<<"S">>)), Pair(<<"b">>, YNull) >> }

\* The target types under a type or a format name; the last is malformed.
TargetNodes ==
    { YNull,
      YScalar(<<"T">>),
      YMap(<< Pair(STR_type, YScalar(<<"T">>)), Pair(<<"a">>, YScalar(<<"e">>)) >>),
      YMap(<< Pair(<<"a">>, YSequence(<< YScalar(<<"e">>) >>)) >>),
      YMap(<< Pair(<<"a">>, YMap(<<>>)) >>) }

Group(on, set) == YMap(<< Pair(STR_on, YSequence(on)), Pair(STR_set, YMap(set)) >>)

\* The entries of a format sequence with at most d grouping directives one
\* inside the other.
RECURSIVE FormatBlocks(_)
FormatBlocks(d) ==
    { YMap(<< Pair(<<"x">>, t) >>) : t \in TargetNodes }
    \cup (IF d = 0 THEN {}
          ELSE { Group(<<b>>, set) : b \in FormatBlocks(d - 1), set \in SetMaps })

\* The entries of analyzer.types with at most d grouping directives one
\* inside the other, those of the format sequences counted in.
RECURSIVE TypeBlocks(_)
TypeBlocks(d) ==
    { YMap(<< Pair(<<"i">>, t) >>) :
        t \in TargetNodes \cup { YSequence(<<b>>) : b \in FormatBlocks(d) } }
    \cup (IF d = 0 THEN {}
          ELSE { Group(on, set) :
                   on \in UNION { { <<b>>, << YMap(<< Pair(<<"s">>, YScalar(<<"U">>)) >>), b >> } :
                                    b \in TypeBlocks(d - 1) },
                   set \in SetMaps })

GroupConfigs == { <<b>> : b \in TypeBlocks(MaxDepth) }

\* The most rules under analyzer.identifiers.
MaxIdentifiers == 2

IdentifierPatterns ==
    { <<>>, <<"a">>, <<"s", "/", "a">>, <<"a", "/">>, <<"/">>, <<"/", "/">>,
      <<"/", "a">>, <<"/", "a", "/">>, <<"/", "^", "s", "/">> }
BaseNames == {<<"a">>, <<"b">>}
Scopes == {<<>>, <<"s">>}

\* What the p-th rule of a configuration puts in.
Replacement(p) == <<"R", ToString(p)>>

IdentifierConfigs ==
    UNION { { [p \in 1..n |-> Pair(f[p], YScalar(Replacement(p)))] :
                f \in [1..n -> IdentifierPatterns] } : n \in 0..MaxIdentifiers }

SubstConfigs ==
    { <<>>,
      << Pair(<<"/">>, YScalar(<<"x">>)) >>,
      << Pair(<<"a", "/">>, YScalar(<<"x">>)), Pair(<<"/", "b", "/">>, YScalar(<<"y">>)) >> }

\* The most files processFile is called for.
MaxFiles == 2

\* Model::fileDir of the files, and what the Printer reports as written.
FileDirs == {<<"d">>, <<"e">>}
PrintedFiles == {<< <<"f">> >>, << <<"f">>, <<"g">> >>}

-----------------------------------------------------------------------------
(* The state *)

VARIABLES
    typesYaml,        \* analyzer.types of the configuration file
    identifiersYaml,  \* analyzer.identifiers
    substYaml,        \* analyzer.subst
    state,            \* "new", "ready" (constructed) or "failed" (the constructor threw)
    typesMap,         \* Translator::_typesMap
    identifiers,      \* Translator::_identifiers
    substitutions,    \* Translator::_substitutions
    call,             \* the last call of a resolver, with what it returned
    pc,               \* where processFile is: "idle", "loaded", "dir", "print",
                      \* "returned" or "thrown"
    m,                \* the Model of the file being processed
    skipTrivial,      \* the argument of processFile
    dirs,             \* the subdirectories of the output directory that exist
    log,              \* what the running call of processFile has invoked, in order
    files             \* the number of calls of processFile so far

configVars == <<typesYaml, identifiersYaml, substYaml>>
tableVars == <<state, typesMap, identifiers, substitutions>>
fileVars == <<pc, m, skipTrivial, dirs, log, files>>
vars == <<configVars, tableVars, call, fileVars>>

NoCall == [op |-> "none", swaggerType |-> <<>>, swaggerFormat |-> <<>>,
           baseName |-> <<>>, scope |-> <<>>, tu |-> TypeUsage(<<>>), id |-> <<>>]

NoModel == [empty |-> TRUE, trivial |-> TRUE, fileDir |-> <<>>, dstFiles |-> <<>>]

InitTables ==
    /\ state = "new"
    /\ typesMap = <<>>
    /\ identifiers = <<>>
    /\ substitutions = <<>>
    /\ call = NoCall
    /\ pc = "idle"
    /\ m = NoModel
    /\ skipTrivial = FALSE
    /\ log = <<>>
    /\ files = 0

\* Translator::Translator, as far as the tables go.
Translator ==
    /\ state = "new"
    /\ LET types == parseTypes(typesYaml)
       IN  IF types.ok
           THEN /\ state' = "ready"
                /\ substitutions' = loadStringMap(substYaml)
                /\ identifiers' = loadStringMap(identifiersYaml)
                /\ typesMap' = types.val
           ELSE /\ state' = "failed"
                /\ UNCHANGED <<substitutions, identifiers, typesMap>>
    /\ UNCHANGED <<configVars, call, fileVars>>

MapType ==
    /\ state = "ready"
    /\ \E swaggerType \in TypeNames, swaggerFormat \in SchemaFormats,
          baseName \in BaseNameHints :
          call' = [NoCall EXCEPT !.op = "mapType", !.swaggerType = swaggerType,
                                 !.swaggerFormat = swaggerFormat, !.baseName = baseName,
                                 !.tu = mapType(typesMap, swaggerType, swaggerFormat, baseName)]
    /\ UNCHANGED <<configVars, tableVars, fileVars>>

MapIdentifier ==
    /\ state = "ready"
    /\ \E baseName \in BaseNames, scope \in Scopes :
          call' = [NoCall EXCEPT !.op = "mapIdentifier", !.baseName = baseName,
                                 !.scope = scope,
                                 !.id = mapIdentifier(identifiers, baseName, scope)]
    /\ UNCHANGED <<configVars, tableVars, fileVars>>

\* The condition of processFile under which nothing is emitted, negated in
\* the source.
SkippedWhenEmptyOnly(model, skip) == model.empty

Skipped(model, skip) == model.empty \/ (model.trivial /\ skip)

\* processFile is called and the Analyzer loads the model of the file.
LoadModel ==
    /\ state = "ready"
    /\ pc \in {"idle", "returned", "thrown"}
    /\ files < MaxFiles
    /\ files' = files + 1
    /\ skipTrivial' \in BOOLEAN
    /\ \E empty \in BOOLEAN, trivial \in BOOLEAN, fileDir \in FileDirs :
          m' = [empty |-> empty, trivial |-> trivial, fileDir |-> fileDir,
                dstFiles |-> <<>>]
    /\ log' = <<"loadModel">>
    /\ pc' = "loaded"
    /\ UNCHANGED <<configVars, tableVars, call, dirs>>

\* The model is empty, or trivial and to be skipped: processFile returns it.
ReturnUnemitted ==
    /\ pc = "loaded"
    /\ Skipped(m, skipTrivial)
    /\ pc' = "returned"
    /\ UNCHANGED <<configVars, tableVars, call, m, skipTrivial, dirs, log, files>>

\* Otherwise the QDir of the target subdirectory is made.
EnterEmit ==
    /\ pc = "loaded"
    /\ ~Skipped(m, skipTrivial)
    /\ pc' = "dir"
    /\ UNCHANGED <<configVars, tableVars, call, m, skipTrivial, dirs, log, files>>

\* d.exists() holds: mkpath is not called.
DirExists ==
    /\ pc = "dir"
    /\ m.fileDir \in dirs
    /\ log' = Append(log, "exists")
    /\ pc' = "print"
    /\ UNCHANGED <<configVars, tableVars, call, m, skipTrivial, dirs, files>>

\* d.exists() fails and d.mkpath(".") makes the directory.
MkpathSucceeds ==
    /\ pc = "dir"
    /\ m.fileDir \notin dirs
    /\ dirs' = dirs \cup {m.fileDir}
    /\ log' = Append(log, "mkpath")
    /\ pc' = "print"
    /\ UNCHANGED <<configVars, tableVars, call, m, skipTrivial, files>>

\* d.exists() fails and so does d.mkpath("."): the Exception is thrown.
MkpathFails ==
    /\ pc = "dir"
    /\ m.fileDir \notin dirs
    /\ log' = Append(log, "mkpathFailed")
    /\ pc' = "thrown"
    /\ UNCHANGED <<configVars, tableVars, call, m, skipTrivial, dirs, files>>

\* m.dstFiles = _printer->print(m), and processFile returns.
PrintModel ==
    /\ pc = "print"
    /\ \E written \in PrintedFiles : m' = [m EXCEPT !.dstFiles = written]
    /\ log' = Append(log, "print")
    /\ pc' = "returned"
    /\ UNCHANGED <<configVars, tableVars, call, skipTrivial, dirs, files>>

InitFormats ==
    /\ typesYaml \in FormatConfigs
    /\ identifiersYaml = <<>>
    /\ substYaml = <<>>
    /\ dirs = {}
    /\ InitTables

InitGroups ==
    /\ typesYaml \in GroupConfigs
    /\ identifiersYaml = <<>>
    /\ substYaml = <<>>
    /\ dirs = {}
    /\ InitTables

NextTypes == Translator \/ MapType

SpecFormats == InitFormats /\ [][NextTypes]_vars

SpecGroups == InitGroups /\ [][NextTypes]_vars

InitIdentifiers ==
    /\ typesYaml = <<>>
    /\ identifiersYaml \in IdentifierConfigs
    /\ substYaml \in SubstConfigs
    /\ dirs = {}
    /\ InitTables

NextIdentifiers == Translator \/ MapIdentifier

SpecIdentifiers == InitIdentifiers /\ [][NextIdentifiers]_vars

InitFiles ==
    /\ typesYaml = <<>>
    /\ identifiersYaml = <<>>
    /\ substYaml \in SubstConfigs
    /\ dirs \in SUBSET FileDirs
    /\ InitTables

NextFiles ==
    \/ Translator
    \/ LoadModel
    \/ ReturnUnemitted
    \/ EnterEmit
    \/ DirExists
    \/ MkpathSucceeds
    \/ MkpathFails
    \/ PrintModel

SpecFiles == InitFiles /\ [][NextFiles]_vars

-----------------------------------------------------------------------------
(* What the claims about mapType speak of, read off the configuration and  *)
(* the table without the resolver.                                         *)

\* The attributes a target node states itself: its null and scalar entries
\* other than "type".
OwnAttributes(node) ==
    LET ks == {i \in 1..Len(node.pairs) :
                 /\ node.pairs[i].first # STR_type
                 /\ node.pairs[i].second.kind \in {"Null", "Scalar"}}
    IN  [k \in {node.pairs[i].first : i \in ks} |-> Get(node.pairs, k).val]

\* The lists a target node states itself.
OwnLists(node) ==
    LET ks == {i \in 1..Len(node.pairs) :
                 /\ node.pairs[i].first # STR_type
                 /\ node.pairs[i].second.kind = "Sequence"}
    IN  [k \in {node.pairs[i].first : i \in ks} |->
            [j \in 1..Len(Get(node.pairs, k).items) |-> Get(node.pairs, k).items[j].val]]

\* All the format rules of the table under the key t, in table order.
RECURSIVE RulesUnder(_, _)
RulesUnder(table, t) ==
    IF table = <<>> THEN <<>>
    ELSE (IF table[1].first = t THEN table[1].second ELSE <<>>) \o RulesUnder(Tail(table), t)

\* A stored pattern selects the format f: it is f, or it is '/'-marked and
\* its regular expression matches somewhere in f.
Selects(pattern, f) ==
    \/ pattern = f
    \/ Len(pattern) >= 1 /\ pattern[1] = "/"
       /\ regex_search(f, SubSeq(pattern, 2, Len(pattern)))

Selecting(rules, f) == {i \in 1..Len(rules) : Selects(rules[i].first, f)}
Least(S) == CHOOSE i \in S : \A j \in S : i <= j

Called(op) == state = "ready" /\ call.op = op

\* C1: whatever the table and the query, and whether a rule matches or not,
\* the TypeUsage mapType returns has as baseName the hint if that is not
\* empty, else the format if that is not empty, else the type; never the
\* name the matched rule records.
C1_BaseNameFallback ==
    Called("mapType") =>
        call.tu.baseName =
            IF call.baseName # <<>> THEN call.baseName
            ELSE IF call.swaggerFormat # <<>> THEN call.swaggerFormat
            ELSE call.swaggerType

\* A rule that records the name T matched, and the name returned is the type.
C1_Witness ==
    /\ Called("mapType")
    /\ LET rules == RulesUnder(typesMap, call.swaggerType)
           hits == Selecting(rules, call.swaggerFormat)
       IN  hits # {} /\ rules[Least(hits)].second.baseName = <<"T">>
    /\ call.baseName = <<>> /\ call.swaggerFormat = <<>>
    /\ call.tu.baseName = call.swaggerType

\* C2: mapType is first-match-wins in declaration order.  Of the rules under
\* the entries whose key is the type, in order, the first whose pattern is
\* the format or is '/'-marked with a regex matching in the format gives the
\* attributes and lists of the result; without one both are empty.
C2_FirstMatchWins ==
    Called("mapType") =>
        LET rules == RulesUnder(typesMap, call.swaggerType)
            hits == Selecting(rules, call.swaggerFormat)
        IN  IF hits = {}
            THEN call.tu.attributes = <<>> /\ call.tu.lists = <<>>
            ELSE /\ call.tu.attributes = rules[Least(hits)].second.attributes
                 /\ call.tu.lists = rules[Least(hits)].second.lists

\* A regex rule comes first and wins over a later rule whose pattern is the
\* format queried, literally.
C2_Witness ==
    /\ Called("mapType")
    /\ LET rules == RulesUnder(typesMap, call.swaggerType)
       IN  /\ Len(rules) >= 2
           /\ rules[1].first = <<"/", ".", "*">>
           /\ rules[2].first = call.swaggerFormat
           /\ rules[1].second.attributes # rules[2].second.attributes
           /\ call.tu.attributes = rules[1].second.attributes

\* The configuration is one type whose target is a sequence of two formats,
\* the first named "" and the second by a literal; the type is the one asked.
C3_Case ==
    /\ Called("mapType")
    /\ Len(typesYaml) = 1
    /\ typesYaml[1].pairs[1].first = call.swaggerType
    /\ typesYaml[1].pairs[1].second.kind = "Sequence"
    /\ LET formats == typesYaml[1].pairs[1].second.items
       IN  /\ Len(formats) = 2
           /\ formats[1].pairs[1].first = <<>>
           /\ formats[2].pairs[1].first # <<>>
           /\ formats[2].pairs[1].first[1] # "/"

C3_Format(i) == typesYaml[1].pairs[1].second.items[i].pairs[1]

\* C3 as stated: the format "" selects the first sub-entry and the literal
\* format F of the second sub-entry selects the second.
C3_AsStated ==
    C3_Case =>
        /\ call.swaggerFormat = <<>> =>
              call.tu.attributes = OwnAttributes(C3_Format(1).second)
        /\ call.swaggerFormat = C3_Format(2).first =>
              call.tu.attributes = OwnAttributes(C3_Format(2).second)

\* C3 as amended: the format "" selects the first sub-entry, and so does the
\* literal format F of the second sub-entry (the first is stored as the
\* all-formats pattern and comes first).
C3_FirstForBoth ==
    C3_Case =>
        (call.swaggerFormat \in {<<>>, C3_Format(2).first} =>
            /\ call.tu.attributes = OwnAttributes(C3_Format(1).second)
            /\ call.tu.lists = OwnLists(C3_Format(1).second))

\* The format of the second sub-entry is asked and the first is returned.
C3_Witness ==
    /\ C3_Case
    /\ call.swaggerFormat = C3_Format(2).first
    /\ call.tu.attributes = OwnAttributes(C3_Format(1).second)
    /\ call.tu.attributes # OwnAttributes(C3_Format(2).second)

\* C10: a type entry whose target is a scalar or a mapping serves every
\* format.  Whatever the format asked, empty or not, mapType on the type of
\* such an entry returns the attributes and lists of that entry, unless an
\* earlier rule for the type matches.  (Without grouping directives the
\* entries of the table are those of the configuration, one for one.)
C10_UniversalEntry ==
    Called("mapType") =>
        \A e \in 1..Len(typesYaml) :
            ( /\ Len(typesMap) = Len(typesYaml)
              /\ Len(typesYaml[e].pairs) = 1
              /\ typesYaml[e].pairs[1].first = call.swaggerType
              /\ typesYaml[e].pairs[1].second.kind \in {"Scalar", "Map"}
              /\ Selecting(RulesUnder(SubSeq(typesMap, 1, e - 1), call.swaggerType),
                           call.swaggerFormat) = {} )
            => /\ call.tu.attributes = OwnAttributes(typesYaml[e].pairs[1].second)
               /\ call.tu.lists = OwnLists(typesYaml[e].pairs[1].second)

-----------------------------------------------------------------------------
(* What the claims about grouping directives speak of, read off the        *)
(* configuration.                                                          *)

\* The single-key entries of a sequence of entries, in order, each with the
\* +set mappings of the grouping directives around it, outermost first.
RECURSIVE LeavesOf(_, _)
LeavesOf(entries, around) ==
    IF entries = <<>> THEN <<>>
    ELSE LET ps == entries[1].pairs
         IN  (IF Len(ps) = 1
              THEN << [name |-> ps[1].first, node |-> ps[1].second, sets |-> around] >>
              ELSE LeavesOf(Get(ps, STR_on).items, Append(around, Get(ps, STR_set).pairs)))
             \o LeavesOf(Tail(entries), around)

\* The rules of the table, in order, each with the entry of the
\* configuration it was produced from.
ProducedRules ==
    LET typeLeaves == LeavesOf(typesYaml, <<>>)
        RulesAt(i) ==
            IF typeLeaves[i].node.kind = "Sequence"
            THEN LET formatLeaves == LeavesOf(typeLeaves[i].node.items, typeLeaves[i].sets)
                 IN  [j \in 1..Len(formatLeaves) |->
                        [tu |-> typesMap[i].second[j].second, leaf |-> formatLeaves[j]]]
            ELSE << [tu |-> typesMap[i].second[1].second, leaf |-> typeLeaves[i]] >>
        RECURSIVE From(_)
        From(i) == IF i > Len(typeLeaves) THEN <<>> ELSE RulesAt(i) \o From(i + 1)
    IN  From(1)

Defines(pairs, k) == k # STR_type /\ HasKey(pairs, k)

\* The TypeUsage holds what the pair (k, v) of a +set mapping says.
Holds(tu, k, v) ==
    IF v.kind = "Sequence"
    THEN k \in DOMAIN tu.lists
         /\ tu.lists[k] = [j \in 1..Len(v.items) |-> v.items[j].val]
    ELSE k \in DOMAIN tu.attributes /\ tu.attributes[k] = v.val

\* C7: a grouping directive merges the attributes under its +set into every
\* entry produced from its +on sequence, at any depth: also into the entries
\* of a format sequence under a grouped type entry, and into the entries of
\* a grouping directive inside its +on sequence, unless the entry or an
\* inner +set defines the attribute.
C7_SetReachesEveryEntry ==
    state = "ready" =>
        \A r \in 1..Len(ProducedRules) :
            LET tu == ProducedRules[r].tu
                leaf == ProducedRules[r].leaf
            IN  \A q \in 1..Len(leaf.sets) : \A p \in 1..Len(leaf.sets[q]) :
                    LET k == leaf.sets[q][p].first
                    IN  ( /\ k # STR_type
                          /\ ~Defines(leaf.node.pairs, k)
                          /\ \A q2 \in (q + 1)..Len(leaf.sets) : ~Defines(leaf.sets[q2], k) )
                        => Holds(tu, k, leaf.sets[q][p].second)

\* The part of C7 about a single grouping directive (none inside another).
C7_SingleDirective ==
    state = "ready" =>
        \A r \in 1..Len(ProducedRules) :
            LET tu == ProducedRules[r].tu
                leaf == ProducedRules[r].leaf
            IN  Len(leaf.sets) = 1 =>
                  \A p \in 1..Len(leaf.sets[1]) :
                    LET k == leaf.sets[1][p].first
                    IN  (k # STR_type /\ ~Defines(leaf.node.pairs, k))
                        => Holds(tu, k, leaf.sets[1][p].second)

\* The rules produced by parseTargetType(node, commonAttributes) under one
\* grouping directive: node is the entry's target, the +set its shared
\* attributes.
C6_Calls == {r \in 1..Len(ProducedRules) : Len(ProducedRules[r].leaf.sets) = 1}

\* The reserved key "type" is stored neither as an attribute nor as a list,
\* and what the entry states itself is what the TypeUsage carries.
C6_EntryWins(tu, node) ==
    /\ STR_type \notin DOMAIN tu.attributes \cup DOMAIN tu.lists
    /\ \A k \in DOMAIN OwnAttributes(node) :
          k \in DOMAIN tu.attributes /\ tu.attributes[k] = OwnAttributes(node)[k]
    /\ \A k \in DOMAIN OwnLists(node) :
          k \in DOMAIN tu.lists /\ tu.lists[k] = OwnLists(node)[k]

\* C6 as stated: the entry's value wins, "type" is never stored, and a
\* shared attribute is inserted only when its name is not yet present on the
\* TypeUsage (among its attributes or its lists).
C6_AsStated ==
    state = "ready" =>
        \A r \in C6_Calls :
            LET tu == ProducedRules[r].tu
                node == ProducedRules[r].leaf.node
                common == ProducedRules[r].leaf.sets[1]
                present == DOMAIN OwnAttributes(node) \cup DOMAIN OwnLists(node)
            IN  /\ C6_EntryWins(tu, node)
                /\ \A p \in 1..Len(common) :
                      common[p].first \in present =>
                          /\ common[p].first \in DOMAIN tu.attributes
                               => common[p].first \in DOMAIN OwnAttributes(node)
                          /\ common[p].first \in DOMAIN tu.lists
                               => common[p].first \in DOMAIN OwnLists(node)

\* C6 as amended: the entry's value wins, "type" is never stored, and a
\* shared attribute is inserted exactly when its name is not yet present in
\* the container it goes to: the attributes for a null or a scalar, the
\* lists for a sequence.
C6_EntryWinsPerContainer ==
    state = "ready" =>
        \A r \in C6_Calls :
            LET tu == ProducedRules[r].tu
                node == ProducedRules[r].leaf.node
                common == ProducedRules[r].leaf.sets[1]
            IN  /\ C6_EntryWins(tu, node)
                /\ \A p \in 1..Len(common) :
                      LET k == common[p].first
                          own == IF common[p].second.kind = "Sequence"
                                 THEN DOMAIN OwnLists(node)
                                 ELSE DOMAIN OwnAttributes(node)
                      IN  (k # STR_type /\ k \notin own) => Holds(tu, k, common[p].second)
                /\ DOMAIN tu.attributes \subseteq
                      DOMAIN OwnAttributes(node) \cup {common[p].first : p \in 1..Len(common)}
                /\ DOMAIN tu.lists \subseteq
                      DOMAIN OwnLists(node) \cup {common[p].first : p \in 1..Len(common)}

\* An entry and the +set around it both give the attribute a as a scalar,
\* with different values; the TypeUsage carries the entry's value of a.
C6_Witness ==
    /\ state = "ready"
    /\ \E r \in C6_Calls :
          LET tu == ProducedRules[r].tu
              node == ProducedRules[r].leaf.node
              common == ProducedRules[r].leaf.sets[1]
          IN  /\ <<"a">> \in DOMAIN OwnAttributes(node)
              /\ HasKey(common, <<"a">>)
              /\ Get(common, <<"a">>).kind = "Scalar"
              /\ Get(common, <<"a">>).val # OwnAttributes(node)[<<"a">>]
              /\ tu.attributes[<<"a">>] = OwnAttributes(node)[<<"a">>]

-----------------------------------------------------------------------------
(* What the claims about the string maps speak of *)

Marked(pattern) == Len(pattern) >= 1 /\ pattern[1] = "/"
ScopedName == call.scope \o <<"/">> \o call.baseName

\* C4: mapIdentifier falls back to the name it was given.  When no rule
\* matches (no pattern is the base name or the scoped name, and no regex of
\* a '/'-marked pattern matches in the scoped name) it returns baseName.
C4_FallsBackToBaseName ==
    ( /\ Called("mapIdentifier")
      /\ \A i \in 1..Len(identifiers) :
            /\ identifiers[i].first \notin {call.baseName, ScopedName}
            /\ Marked(identifiers[i].first) =>
                  ~regex_search(ScopedName, Tail(identifiers[i].first)) )
    => call.id = call.baseName

\* The rules that decide: the '/'-marked ones and the literal ones that are
\* the base name or the scoped name.
Deciding ==
    {i \in 1..Len(identifiers) :
        \/ Marked(identifiers[i].first)
        \/ identifiers[i].first \in {call.baseName, ScopedName}}

\* C5: declaration order alone decides.  The first rule that is '/'-marked
\* or is literally the base name or the scoped name gives the result: a
\* '/'-marked one the scoped name with every match of its regex replaced
\* (also when there is none), a literal one its replacement text.
C5_FirstDecidingRule ==
    (Called("mapIdentifier") /\ Deciding # {}) =>
        LET rule == identifiers[Least(Deciding)]
        IN  call.id = IF Marked(rule.first)
                      THEN regex_replace(ScopedName, Tail(rule.first), rule.second)
                      ELSE rule.second

\* A regex rule that replaces nothing comes before a literal rule for the
\* base name, and the scoped name is what comes back.
C5_Witness ==
    /\ Called("mapIdentifier")
    /\ Len(identifiers) = 2
    /\ Marked(identifiers[1].first)
    /\ ~regex_search(ScopedName, Tail(identifiers[1].first))
    /\ identifiers[2].first = call.baseName
    /\ call.id = ScopedName

\* The rules of a configured map that loadStringMap is to keep, and the
\* pattern each is to be stored under.
Rejected(pattern) ==
    \/ pattern = <<>>
    \/ Len(pattern) > 1 /\ pattern[Len(pattern)] = "/" /\ pattern[1] # "/"
StoredAs(pattern) ==
    IF Len(pattern) > 1 /\ pattern[1] = "/" /\ pattern[Len(pattern)] = "/"
    THEN SubSeq(pattern, 1, Len(pattern) - 1)
    ELSE pattern
Kept(yaml) == SelectSeq(yaml, LAMBDA rule : ~Rejected(rule.first))
LoadedAsStated(table, yaml) ==
    /\ Len(table) = Len(Kept(yaml))
    /\ \A i \in 1..Len(table) :
          /\ table[i].first = StoredAs(Kept(yaml)[i].first)
          /\ table[i].second = Kept(yaml)[i].second.val
          /\ table[i].first # <<>>

\* C8: loadStringMap keeps the rules it does not reject, in order.  An empty
\* pattern and one longer than a character that ends but does not begin with
\* '/' are skipped; one longer than a character that begins and ends with
\* '/' loses its last '/'; any other is stored as it is; so no stored
\* pattern is empty.
C8_LoadStringMap ==
    state = "ready" =>
        /\ LoadedAsStated(identifiers, identifiersYaml)
        /\ LoadedAsStated(substitutions, substYaml)

-----------------------------------------------------------------------------
(* What the claim about processFile speaks of *)

Invoked(what) == \E i \in 1..Len(log) : log[i] = what

\* C9: processFile goes Analyzer, skip check, directory, Printer.  For a
\* model that is empty, or trivial with skipTrivial set, neither the
\* creation of the directory nor the Printer is invoked and dstFiles stays
\* unset.  Otherwise the Printer is invoked only once the target
\* subdirectory exists, found or made; and when making it fails the call
\* ends in an error and the Printer is never invoked.
C9_ProcessFileOrder ==
    /\ pc # "idle" => Len(log) >= 1 /\ log[1] = "loadModel"
    /\ (pc # "idle" /\ (m.empty \/ (m.trivial /\ skipTrivial))) =>
          /\ log = <<"loadModel">>
          /\ m.dstFiles = <<>>
          /\ pc \in {"loaded", "returned"}
    /\ Invoked("print") =>
          /\ log \in {<<"loadModel", "exists", "print">>, <<"loadModel", "mkpath", "print">>}
          /\ m.fileDir \in dirs
          /\ pc = "returned"
    /\ Invoked("mkpathFailed") =>
          /\ log = <<"loadModel", "mkpathFailed">>
          /\ pc = "thrown"
          /\ m.dstFiles = <<>>
    /\ (pc = "returned" /\ ~(m.empty \/ (m.trivial /\ skipTrivial))) =>
          Invoked("print") /\ m.dstFiles # <<>>

\* A file that is trivial, but not to be skipped, is printed into a
\* directory processFile had to make.
C9_Witness ==
    /\ pc = "returned"
    /\ m.trivial /\ ~m.empty /\ ~skipTrivial
    /\ log = <<"loadModel", "mkpath", "print">>
    /\ m.dstFiles # <<>>

=============================================================================
